---- MODULE Spec2Model ----
(***************************************************************************)
(* The supermarket checkout simulation of assignment11/shopping02.py: one  *)
(* producer coroutine (customer_generation) puts customers into an         *)
(* asyncio.Queue, the cashier coroutines (checkout_customer) drain it, and *)
(* main awaits the producer, joins the queue, cancels the cashiers and     *)
(* prints the report.                                                      *)
(*                                                                         *)
(* The tasks run on the asyncio event loop: one task runs at a time, from  *)
(* one await that suspends to the next.  The loop's FIFO of ready          *)
(* callbacks is the sequence "ready"; a sleep with a positive delay is a   *)
(* timer in "timers", which may expire at any moment.  Durations are       *)
(* integers: checkout_time in milliseconds, the rounded time a cashier     *)
(* sleeps and accumulates in hundredths of a second.                       *)
(*                                                                         *)
(* The asynchronous iterator of assignment06/asyncio02.py is a second      *)
(* program: main iterates an AsyncIterator with "async for" and prints the *)
(* items.  It is modelled statement by statement (IterSpec); the shopping  *)
(* program does not run in it, and the iterator does not run in Spec.      *)
(***************************************************************************)
EXTENDS Integers, Sequences, FiniteSets, TLC

\* Bounds of the configurations explored (main uses 20, 5 and 5).
MaxCustomers == 3
MaxCashiers == 2
MaxQueueSize == 2

\* Calls of __anext__ made after the "async for" of asyncio02.py has ended.
MaxExtraCalls == 9

\* Task identifiers; the cashier tasks are 0 .. num_cashiers-1.
MainTask == -2
ProducerTask == -1

\* asyncio.sleep(0.001) of customer_generation, in milliseconds.
ArrivalDelay == 1

NoResult == -1

\* "if self.counter >= 10" of AsyncIterator.__anext__.
Limit == 10

VARIABLES
    maxsize,            \* Queue(maxsize)
    total_customers,    \* argument of customer_generation
    num_cashiers,       \* number of cashier tasks main creates
    all_products,       \* the catalog generate_customer assigns
    queue,              \* Queue._queue
    unfinished_tasks,   \* Queue._unfinished_tasks
    finished,           \* Queue._finished (an Event): TRUE when set
    finished_waiters,   \* Event._waiters of Queue._finished
    getters,            \* Queue._getters
    putters,            \* Queue._putters
    ready,              \* the event loop's FIFO of runnable tasks
    timers,             \* tasks suspended in a sleep whose timer is pending
    fut,                \* per task: state of the future it awaits
    must_cancel,        \* per task: Task._must_cancel
    main_pc,            \* position of main
    cancel_i,           \* index of the for loop over cashiers in main
    report,             \* what main printed at the end
    gen_pc,             \* position of customer_generation
    customer_count,     \* customer_count of customer_generation
    result,             \* customer_producer.result()
    pc,                 \* per cashier: position of checkout_customer
    customer,           \* per cashier: its local "customer"
    product_i,          \* per cashier: index of the product being checked out
    cashier_times,      \* the shared list cashier_times
    cashier_count,      \* per cashier: its local customer_count
    put_log,            \* history: customer ids in the order put completed
    get_log,            \* history: <<cashier, customer id>> in the order get returned
    done_log,           \* history: <<cashier, customer id>> in the order of task_done
    counter,            \* AsyncIterator.counter
    it_pc,              \* position of asyncio02's main and __anext__
    for_item,           \* the loop variable "item" of "async for item in ..."
    printed,            \* history: the items main printed, in order
    stops               \* history: number of StopAsyncIteration raised

config == <<maxsize, total_customers, num_cashiers, all_products>>

\* The state of shopping02.py and the state of asyncio02.py.
shopping_vars ==
    <<maxsize, total_customers, num_cashiers, all_products, queue,
      unfinished_tasks, finished, finished_waiters, getters, putters,
      ready, timers, fut, must_cancel, main_pc, cancel_i, report, gen_pc,
      customer_count, result, pc, customer, product_i, cashier_times,
      cashier_count, put_log, get_log, done_log>>

iterator_vars == <<counter, it_pc, for_item, printed, stops>>

vars == <<shopping_vars, iterator_vars>>

Cashiers == 0 .. (num_cashiers - 1)

Tasks == {MainTask, ProducerTask} \cup Cashiers

Product(name, ms) == [product_name |-> name, checkout_time |-> ms]

Customer(id, products) == [customer_id |-> id, products |-> products]

NoCustomer == Customer(-1, <<>>)

\* The catalog of generate_customer, checkout_time in milliseconds.
Catalog ==
    << Product("beef", 1000), Product("banana", 400),
       Product("sausage", 400), Product("diapers", 200) >>

generate_customer(customer_id) == Customer(customer_id, all_products)

\* round(checkout_time, ndigits=2): milliseconds to hundredths, half to even.
Round2(ms) ==
    LET q == ms \div 10
        r == ms % 10
    IN  IF r < 5 THEN q
        ELSE IF r > 5 THEN q + 1
        ELSE IF q % 2 = 0 THEN q ELSE q + 1

RECURSIVE RangeSeq(_, _)
RangeSeq(a, b) == IF a > b THEN <<>> ELSE <<a>> \o RangeSeq(a + 1, b)

RECURSIVE Remove(_, _)
Remove(s, x) ==
    IF s = <<>> THEN <<>>
    ELSE IF Head(s) = x THEN Tail(s)
    ELSE <<Head(s)>> \o Remove(Tail(s), x)

(***************************************************************************)
(* The mutable state as one record, so that the straight-line code of a    *)
(* task step is a composition of state transformers.                       *)
(***************************************************************************)
St ==
    [ queue |-> queue, unfinished_tasks |-> unfinished_tasks,
      finished |-> finished, finished_waiters |-> finished_waiters,
      getters |-> getters, putters |-> putters, ready |-> ready,
      timers |-> timers, fut |-> fut, must_cancel |-> must_cancel,
      main_pc |-> main_pc, cancel_i |-> cancel_i, report |-> report,
      gen_pc |-> gen_pc, customer_count |-> customer_count,
      result |-> result, pc |-> pc, customer |-> customer,
      product_i |-> product_i, cashier_times |-> cashier_times,
      cashier_count |-> cashier_count, put_log |-> put_log,
      get_log |-> get_log, done_log |-> done_log ]

Assign(s) ==
    /\ queue' = s.queue
    /\ unfinished_tasks' = s.unfinished_tasks
    /\ finished' = s.finished
    /\ finished_waiters' = s.finished_waiters
    /\ getters' = s.getters
    /\ putters' = s.putters
    /\ ready' = s.ready
    /\ timers' = s.timers
    /\ fut' = s.fut
    /\ must_cancel' = s.must_cancel
    /\ main_pc' = s.main_pc
    /\ cancel_i' = s.cancel_i
    /\ report' = s.report
    /\ gen_pc' = s.gen_pc
    /\ customer_count' = s.customer_count
    /\ result' = s.result
    /\ pc' = s.pc
    /\ customer' = s.customer
    /\ product_i' = s.product_i
    /\ cashier_times' = s.cashier_times
    /\ cashier_count' = s.cashier_count
    /\ put_log' = s.put_log
    /\ get_log' = s.get_log
    /\ done_log' = s.done_log
    /\ UNCHANGED config
    /\ UNCHANGED iterator_vars

\* A step computes its resulting state once and assigns it.
Commit(s) == \E n \in {s} : Assign(n)

(***************************************************************************)
(* Event loop and futures.                                                 *)
(***************************************************************************)
\* The running task is the head of ready; it leaves the FIFO when it
\* suspends or finishes.
Running(t) == ready # <<>> /\ Head(ready) = t

Suspend(s) == [s EXCEPT !.ready = Tail(@)]

\* Future.set_result: the waiting task's wakeup is scheduled with call_soon.
SetResult(s, t) == [s EXCEPT !.fut[t] = "result", !.ready = Append(@, t)]

\* asyncio.sleep(delay): a bare yield when delay <= 0, else a timer.
Sleep(s, t, delay) ==
    IF delay <= 0
    THEN [s EXCEPT !.fut[t] = "none", !.ready = Append(@, t)]
    ELSE [s EXCEPT !.fut[t] = "pending", !.timers = @ \cup {t}]

TaskDoneStates == {"cancelled", "error"}

\* Faulty variant of Cancel: the request is only recorded, the awaited future is not
\* cancelled, so a suspended task is never woken.
Cancel_flag_only(s, t) ==
    IF s.pc[t] \in TaskDoneStates THEN s
    ELSE [s EXCEPT !.must_cancel[t] = TRUE]

\* Task.cancel(): cancel the awaited future if it is still pending (its
\* callbacks schedule the task's wakeup and its timer becomes inert),
\* otherwise request that CancelledError is thrown at the next step.
Cancel(s, t) ==
    IF s.pc[t] \in TaskDoneStates THEN s
    ELSE IF s.fut[t] = "pending"
    THEN [s EXCEPT !.fut[t] = "cancelled", !.ready = Append(@, t),
                   !.timers = @ \ {t}]
    ELSE [s EXCEPT !.must_cancel[t] = TRUE]

(***************************************************************************)
(* asyncio.Queue                                                           *)
(***************************************************************************)
empty(s) == s.queue = <<>>

\* Faulty variant of full: a queue constructed without its capacity is never full.
full_unbounded(s) == FALSE

\* Faulty variant of full: full only past the capacity.
full_off_by_one(s) == IF maxsize <= 0 THEN FALSE ELSE Len(s.queue) > maxsize

full(s) == IF maxsize <= 0 THEN FALSE ELSE Len(s.queue) >= maxsize

\* The waiters left once the done ones at the front are popped.
RECURSIVE DropDone(_, _)
DropDone(waiters, f) ==
    IF waiters = <<>> THEN <<>>
    ELSE IF f[Head(waiters)] = "pending" THEN waiters
    ELSE DropDone(Tail(waiters), f)

\* Queue._wakeup_next(self._getters)
WakeupNextGetter(s) ==
    LET w == DropDone(s.getters, s.fut)
    IN  IF w = <<>> THEN [s EXCEPT !.getters = <<>>]
        ELSE SetResult([s EXCEPT !.getters = Tail(w)], Head(w))

\* Queue._wakeup_next(self._putters)
WakeupNextPutter(s) ==
    LET w == DropDone(s.putters, s.fut)
    IN  IF w = <<>> THEN [s EXCEPT !.putters = <<>>]
        ELSE SetResult([s EXCEPT !.putters = Tail(w)], Head(w))

\* Faulty variant of put_nowait: the item is not counted as unfinished.
put_nowait_no_count(s, item) ==
    WakeupNextGetter([s EXCEPT !.queue = Append(@, item),
                               !.finished = FALSE,
                               !.put_log = Append(@, item.customer_id)])

\* Queue.put_nowait(item), called once put found the queue not full.
put_nowait(s, item) ==
    WakeupNextGetter([s EXCEPT !.queue = Append(@, item),
                               !.unfinished_tasks = @ + 1,
                               !.finished = FALSE,
                               !.put_log = Append(@, item.customer_id)])

\* Faulty variant of get_nowait: the head is returned but stays in the queue.
get_nowait_peek(s, i) ==
    WakeupNextPutter([s EXCEPT !.customer[i] = Head(s.queue),
                               !.get_log = Append(@, <<i, Head(s.queue).customer_id>>)])

\* Faulty variant of get_nowait: the newest customer is taken instead of the oldest.
get_nowait_lifo(s, i) ==
    WakeupNextPutter([s EXCEPT !.queue = SubSeq(@, 1, Len(@) - 1),
                               !.customer[i] = s.queue[Len(s.queue)],
                               !.get_log = Append(@, <<i, s.queue[Len(s.queue)].customer_id>>)])

\* Faulty variant of get_nowait: the waiting putter is not woken.
get_nowait_no_wakeup(s, i) ==
    [s EXCEPT !.queue = Tail(@),
              !.customer[i] = Head(s.queue),
              !.get_log = Append(@, <<i, Head(s.queue).customer_id>>)]

\* Faulty variant of get_nowait: taking a customer already counts it as done.
get_nowait_counts_done(s, i) ==
    WakeupNextPutter([s EXCEPT !.queue = Tail(@),
                               !.customer[i] = Head(s.queue),
                               !.unfinished_tasks = @ - 1,
                               !.get_log = Append(@, <<i, Head(s.queue).customer_id>>)])

\* Queue.get_nowait() by cashier i, called once get found the queue not empty.
get_nowait(s, i) ==
    WakeupNextPutter([s EXCEPT !.queue = Tail(@),
                               !.customer[i] = Head(s.queue),
                               !.get_log = Append(@, <<i, Head(s.queue).customer_id>>)])

\* Event.set() of Queue._finished: every pending waiter gets its result.
RECURSIVE WakeAll(_, _)
WakeAll(s, waiters) ==
    IF waiters = <<>> THEN s
    ELSE IF s.fut[Head(waiters)] = "pending"
    THEN WakeAll(SetResult(s, Head(waiters)), Tail(waiters))
    ELSE WakeAll(s, Tail(waiters))

EventSet(s) ==
    IF s.finished THEN s
    ELSE WakeAll([s EXCEPT !.finished = TRUE], s.finished_waiters)

\* Faulty variant of task_done: the event is set at every call, not only at zero.
task_done_sets_early(s, i) ==
    IF s.unfinished_tasks <= 0 THEN [s EXCEPT !.pc[i] = "error"]
    ELSE EventSet([s EXCEPT !.unfinished_tasks = @ - 1,
                            !.done_log = Append(@, <<i, s.customer[i].customer_id>>)])

\* Queue.task_done() by cashier i; ValueError ends the cashier's task.
task_done(s, i) ==
    IF s.unfinished_tasks <= 0 THEN [s EXCEPT !.pc[i] = "error"]
    ELSE LET s1 == [s EXCEPT !.unfinished_tasks = @ - 1,
                             !.done_log = Append(@, <<i, s.customer[i].customer_id>>)]
         IN  IF s1.unfinished_tasks = 0 THEN EventSet(s1) ELSE s1

(***************************************************************************)
(* checkout_customer (the cashier, a consumer)                             *)
(***************************************************************************)
RECURSIVE checkout_loop(_, _), checkout_products(_, _, _)


\* One pass of "while True" from "await queue.get()": wait as a getter if
\* the queue is empty, else take the head and start on its products.
checkout_loop(s, i) ==
    IF empty(s)
    THEN [s EXCEPT !.getters = Append(@, i), !.fut[i] = "pending",
                   !.pc[i] = "get_wait"]
    ELSE checkout_products([get_nowait(s, i) EXCEPT !.cashier_count[i] = @ + 1],
                           i, 1)

\* Faulty variant of checkout_products: task_done without the last product.
checkout_products_skip_last(s, i, k) ==
    IF k >= Len(s.customer[i].products)
    THEN LET s1 == task_done(s, i)
         IN  IF s1.pc[i] = "error" THEN s1 ELSE checkout_loop(s1, i)
    ELSE Sleep([s EXCEPT !.pc[i] = "sleep", !.product_i[i] = k], i,
               Round2(s.customer[i].products[k].checkout_time))

\* "for product in customer.products" from the k-th product: sleep for it,
\* or, past the last one, task_done and the next pass of the loop.
checkout_products(s, i, k) ==
    IF k > Len(s.customer[i].products)
    THEN LET s1 == task_done(s, i)
         IN  IF s1.pc[i] = "error" THEN s1 ELSE checkout_loop(s1, i)
    ELSE Sleep([s EXCEPT !.pc[i] = "sleep", !.product_i[i] = k], i,
               Round2(s.customer[i].products[k].checkout_time))

\* Faulty variant of after_sleep: the time is assigned to the slot, not added.
after_sleep_assign(s, i) ==
    LET k == s.product_i[i]
        product_take_time == Round2(s.customer[i].products[k].checkout_time)
    IN  checkout_products([s EXCEPT !.cashier_times[i] = product_take_time],
                          i, k + 1)

\* Faulty variant of after_sleep: the time goes to slot 0, whoever the cashier.
after_sleep_slot0(s, i) ==
    LET k == s.product_i[i]
        product_take_time == Round2(s.customer[i].products[k].checkout_time)
    IN  checkout_products([s EXCEPT !.cashier_times[0] = @ + product_take_time],
                          i, k + 1)

\* Faulty variant of after_sleep: the time of the product that comes next is
\* added too, before its sleep.
after_sleep_adds_ahead(s, i) ==
    LET k == s.product_i[i]
        products == s.customer[i].products
        product_take_time == Round2(products[k].checkout_time)
        next_time == IF k < Len(products)
                     THEN Round2(products[k + 1].checkout_time) ELSE 0
    IN  checkout_products(
            [s EXCEPT !.cashier_times[i] = @ + product_take_time + next_time],
            i, k + 1)

\* The sleep for the current product returned: add its time, go on.
after_sleep(s, i) ==
    LET k == s.product_i[i]
        product_take_time == Round2(s.customer[i].products[k].checkout_time)
    IN  checkout_products([s EXCEPT !.cashier_times[i] = @ + product_take_time],
                          i, k + 1)

\* The except clause of Queue.get when CancelledError arrives at "await getter".
get_cancelled(s, i) ==
    LET s1 == [s EXCEPT !.getters = Remove(@, i)]
    IN  IF ~empty(s1) /\ s.fut[i] # "cancelled"
        THEN WakeupNextGetter(s1) ELSE s1

\* Faulty variant of throw_cancelled: the cashier marks a task done on its way out.
throw_cancelled_task_done(s, i) ==
    LET s1 == IF s.pc[i] = "get_wait" THEN get_cancelled(s, i) ELSE s
        s2 == task_done(s1, i)
    IN  IF s2.pc[i] = "error" THEN s2
        ELSE [s2 EXCEPT !.pc[i] = "cancelled", !.must_cancel[i] = FALSE]

\* CancelledError thrown into the cashier at the await it is suspended in.
throw_cancelled(s, i) ==
    LET s1 == IF s.pc[i] = "get_wait" THEN get_cancelled(s, i) ELSE s
    IN  [s1 EXCEPT !.pc[i] = "cancelled", !.must_cancel[i] = FALSE]

CancelPending(i) == must_cancel[i] \/ fut[i] = "cancelled"

CashierStart(i) ==
    /\ Running(i)
    /\ pc[i] = "start"
    /\ ~CancelPending(i)
    /\ Commit(checkout_loop(Suspend(St), i))

CashierAfterGet(i) ==
    /\ Running(i)
    /\ pc[i] = "get_wait"
    /\ ~CancelPending(i)
    /\ Commit(checkout_loop(Suspend([St EXCEPT !.fut[i] = "none"]), i))

CashierAfterSleep(i) ==
    /\ Running(i)
    /\ pc[i] = "sleep"
    /\ ~CancelPending(i)
    /\ Commit(after_sleep(Suspend(St), i))

CashierCancelled(i) ==
    /\ Running(i)
    /\ pc[i] \notin TaskDoneStates
    /\ CancelPending(i)
    /\ Commit(throw_cancelled(Suspend(St), i))

(***************************************************************************)
(* customer_generation (the producer)                                      *)
(***************************************************************************)
\* "return customer_count": the task is done, main's await is woken.
producer_return(s) ==
    LET s1 == [s EXCEPT !.gen_pc = "done", !.result = s.customer_count]
    IN  IF s1.main_pc = "await_producer" /\ s1.fut[MainTask] = "pending"
        THEN SetResult(s1, MainTask) ELSE s1

\* "await queue.put(new_customer)" and the rest of the loop body: wait as a
\* putter while the queue is full, else put, count and sleep.
queue_put(s) ==
    IF full(s)
    THEN [s EXCEPT !.putters = Append(@, ProducerTask),
                   !.fut[ProducerTask] = "pending", !.gen_pc = "put_wait"]
    ELSE Sleep([put_nowait(s, generate_customer(s.customer_count))
                   EXCEPT !.customer_count = @ + 1, !.gen_pc = "sleep"],
               ProducerTask, ArrivalDelay)

\* Faulty variant of customer_generation: one customer too many.
customer_generation_off_by_one(s) ==
    IF s.customer_count <= total_customers THEN queue_put(s)
    ELSE producer_return(s)

\* "while customer_count < total_customers"
customer_generation(s) ==
    IF s.customer_count < total_customers THEN queue_put(s)
    ELSE producer_return(s)

ProducerStart ==
    /\ Running(ProducerTask)
    /\ gen_pc = "start"
    /\ Commit(customer_generation(Suspend([St EXCEPT !.customer_count = 0])))

ProducerAfterPut ==
    /\ Running(ProducerTask)
    /\ gen_pc = "put_wait"
    /\ Commit(queue_put(Suspend(St)))

ProducerAfterSleep ==
    /\ Running(ProducerTask)
    /\ gen_pc = "sleep"
    /\ Commit(customer_generation(Suspend(St)))

(***************************************************************************)
(* The event loop's timers                                                 *)
(***************************************************************************)
TimerFire(t) ==
    /\ t \in timers
    /\ Commit(SetResult([St EXCEPT !.timers = @ \ {t}], t))

(***************************************************************************)
(* main (the coordinator)                                                  *)
(***************************************************************************)
\* Queue(5), the producer task, cashier_times, the cashier tasks, and the
\* suspension in "await customer_producer".
MainStart ==
    /\ Running(MainTask)
    /\ main_pc = "start"
    /\ Commit([Suspend(St) EXCEPT
                  !.ready = @ \o <<ProducerTask>> \o RangeSeq(0, num_cashiers - 1),
                  !.gen_pc = "start",
                  !.pc = [i \in Cashiers |-> "start"],
                  !.cashier_times = [i \in Cashiers |-> 0],
                  !.fut[MainTask] = "pending",
                  !.main_pc = "await_producer"])

\* Faulty variant of queue_join: join does not wait.
queue_join_no_wait(s) ==
    [s EXCEPT !.main_pc = "cancel", !.cancel_i = 0, !.fut[MainTask] = "none"]

\* Faulty variant of queue_join: join waits for an empty queue only, not for
\* the customers the cashiers still hold.
queue_join_until_empty(s) ==
    IF ~empty(s) /\ ~s.finished
    THEN Suspend([s EXCEPT !.finished_waiters = Append(@, MainTask),
                           !.fut[MainTask] = "pending",
                           !.main_pc = "join_wait"])
    ELSE [s EXCEPT !.main_pc = "cancel", !.cancel_i = 0,
                   !.fut[MainTask] = "none"]

\* "await customer_queue.join()": returns at once when nothing is unfinished
\* (main keeps running), else waits on the _finished event.
queue_join(s) ==
    IF s.unfinished_tasks > 0 /\ ~s.finished
    THEN Suspend([s EXCEPT !.finished_waiters = Append(@, MainTask),
                           !.fut[MainTask] = "pending",
                           !.main_pc = "join_wait"])
    ELSE [s EXCEPT !.main_pc = "cancel", !.cancel_i = 0,
                   !.fut[MainTask] = "none"]

MainAfterProducer ==
    /\ Running(MainTask)
    /\ main_pc = "await_producer"
    /\ Commit(queue_join(St))

\* The event was set: Event.wait removes its waiter and join returns.
MainAfterJoin ==
    /\ Running(MainTask)
    /\ main_pc = "join_wait"
    /\ Commit([St EXCEPT !.finished_waiters = Remove(@, MainTask),
                         !.fut[MainTask] = "none",
                         !.main_pc = "cancel", !.cancel_i = 0])

\* One iteration of "for cashier in cashiers: cashier.cancel()".
MainCancel ==
    /\ Running(MainTask)
    /\ main_pc = "cancel"
    /\ cancel_i < num_cashiers
    /\ Commit(Cancel([St EXCEPT !.cancel_i = @ + 1], cancel_i))

\* The final prints: customer_producer.result() and cashier_times; main
\* returns, and asyncio.run lets the cancelled tasks finish.
MainReport ==
    /\ Running(MainTask)
    /\ main_pc = "cancel"
    /\ cancel_i = num_cashiers
    /\ Commit([Suspend(St) EXCEPT
                  !.report = [customers |-> result, cashier_times |-> cashier_times],
                  !.main_pc = "done"])

(***************************************************************************)
(* assignment06/asyncio02.py: AsyncIterator and its main                   *)
(***************************************************************************)
\* "async for item in AsyncIterator()": the constructor sets counter to 0
\* and __aiter__ returns the object itself.
AsyncIterator ==
    /\ it_pc = "new"
    /\ counter' = 0
    /\ it_pc' = "for"
    /\ UNCHANGED <<for_item, printed, stops>>
    /\ UNCHANGED shopping_vars

\* The loop asks for the next item: it calls __anext__.
IterMainFor ==
    /\ it_pc = "for"
    /\ it_pc' = "check"
    /\ UNCHANGED <<counter, for_item, printed, stops>>
    /\ UNCHANGED shopping_vars

\* Faulty variant of anext_check: the comparison is strict.
anext_check_strict ==
    /\ it_pc = "check"
    /\ it_pc' = (IF counter > Limit THEN "raise" ELSE "increment")
    /\ UNCHANGED <<counter, for_item, printed, stops>>
    /\ UNCHANGED shopping_vars

\* "if self.counter >= 10"
anext_check ==
    /\ it_pc = "check"
    /\ it_pc' = (IF counter >= Limit THEN "raise" ELSE "increment")
    /\ UNCHANGED <<counter, for_item, printed, stops>>
    /\ UNCHANGED shopping_vars

\* "raise StopAsyncIteration": the call ends, and with it the loop and main.
anext_raise ==
    /\ it_pc = "raise"
    /\ stops' = stops + 1
    /\ it_pc' = "done"
    /\ UNCHANGED <<counter, for_item, printed>>
    /\ UNCHANGED shopping_vars

\* "self.counter += 1"
anext_increment ==
    /\ it_pc = "increment"
    /\ counter' = counter + 1
    /\ it_pc' = "await"
    /\ UNCHANGED <<for_item, printed, stops>>
    /\ UNCHANGED shopping_vars

\* "await asyncio.sleep(1)": the task is suspended until the timer expires.
anext_sleep ==
    /\ it_pc = "await"
    /\ it_pc' = "sleep"
    /\ UNCHANGED <<counter, for_item, printed, stops>>
    /\ UNCHANGED shopping_vars

\* The timer of asyncio.sleep(1) expires and the task is ready again.
IterTimerFire ==
    /\ it_pc = "sleep"
    /\ it_pc' = "return"
    /\ UNCHANGED <<counter, for_item, printed, stops>>
    /\ UNCHANGED shopping_vars

\* "return self.counter": the value becomes the loop's item.
anext_return ==
    /\ it_pc = "return"
    /\ for_item' = counter
    /\ it_pc' = "print"
    /\ UNCHANGED <<counter, printed, stops>>
    /\ UNCHANGED shopping_vars

\* "print(item)", and back to the head of the loop.
IterMainPrint ==
    /\ it_pc = "print"
    /\ printed' = Append(printed, for_item)
    /\ it_pc' = "for"
    /\ UNCHANGED <<counter, for_item, stops>>
    /\ UNCHANGED shopping_vars

\* A further call of __anext__ on the exhausted iterator, after the loop.
ExtraCall ==
    /\ it_pc = "done"
    /\ stops <= MaxExtraCalls
    /\ it_pc' = "check"
    /\ UNCHANGED <<counter, for_item, printed, stops>>
    /\ UNCHANGED shopping_vars

\* The steps of asyncio02.py itself.
IterRun ==
    \/ AsyncIterator
    \/ IterMainFor
    \/ anext_check
    \/ anext_raise
    \/ anext_increment
    \/ anext_sleep
    \/ IterTimerFire
    \/ anext_return
    \/ IterMainPrint

IterNext ==
    \/ AsyncIterator
    \/ IterMainFor
    \/ anext_check
    \/ anext_raise
    \/ anext_increment
    \/ anext_sleep
    \/ IterTimerFire
    \/ anext_return
    \/ IterMainPrint
    \/ ExtraCall

(***************************************************************************)
(* Specification                                                           *)
(***************************************************************************)
\* The state before either main runs.
InitState ==
    /\ counter = 0
    /\ it_pc = "new"
    /\ for_item = NoResult
    /\ printed = <<>>
    /\ stops = 0
    /\ queue = <<>>
    /\ unfinished_tasks = 0
    /\ finished = TRUE
    /\ finished_waiters = <<>>
    /\ getters = <<>>
    /\ putters = <<>>
    /\ ready = <<MainTask>>
    /\ timers = {}
    /\ fut = [t \in Tasks |-> "none"]
    /\ must_cancel = [t \in Tasks |-> FALSE]
    /\ main_pc = "start"
    /\ cancel_i = 0
    /\ report = [customers |-> NoResult, cashier_times |-> [i \in Cashiers |-> 0]]
    /\ gen_pc = "new"
    /\ customer_count = 0
    /\ result = NoResult
    /\ pc = [i \in Cashiers |-> "new"]
    /\ customer = [i \in Cashiers |-> NoCustomer]
    /\ product_i = [i \in Cashiers |-> 0]
    /\ cashier_times = [i \in Cashiers |-> 0]
    /\ cashier_count = [i \in Cashiers |-> 0]
    /\ put_log = <<>>
    /\ get_log = <<>>
    /\ done_log = <<>>

\* Everything but the catalog: the arguments and the state before main runs.
InitRest ==
    /\ maxsize \in 1 .. MaxQueueSize
    /\ total_customers \in 0 .. MaxCustomers
    /\ num_cashiers \in 1 .. MaxCashiers
    /\ InitState

Init ==
    /\ all_products = Catalog
    /\ InitRest

Next ==
    \/ MainStart
    \/ MainAfterProducer
    \/ MainAfterJoin
    \/ MainCancel
    \/ MainReport
    \/ ProducerStart
    \/ ProducerAfterPut
    \/ ProducerAfterSleep
    \/ \E i \in Cashiers : CashierStart(i)
    \/ \E i \in Cashiers : CashierAfterGet(i)
    \/ \E i \in Cashiers : CashierAfterSleep(i)
    \/ \E i \in Cashiers : CashierCancelled(i)
    \/ \E t \in Tasks : TimerFire(t)

Spec == Init /\ [][Next]_vars

\* The event loop runs the head of ready whenever there is one.
RunReady ==
    \/ MainStart
    \/ MainAfterProducer
    \/ MainAfterJoin
    \/ MainCancel
    \/ MainReport
    \/ ProducerStart
    \/ ProducerAfterPut
    \/ ProducerAfterSleep
    \/ \E i \in Cashiers : CashierStart(i)
    \/ \E i \in Cashiers : CashierAfterGet(i)
    \/ \E i \in Cashiers : CashierAfterSleep(i)
    \/ \E i \in Cashiers : CashierCancelled(i)

\* Every timer expires.
SomeTimerFires == \E t \in Tasks : TimerFire(t)

FairSpec == Spec /\ WF_vars(RunReady) /\ WF_vars(SomeTimerFires)

\* The same program where generate_customer gives every customer a single
\* product that takes no time, next to the catalog of the source.
ScenarioProducts == <<Product("item", 0)>>

ScenarioInit ==
    /\ all_products \in {ScenarioProducts, Catalog}
    /\ InitRest

ScenarioSpec == ScenarioInit /\ [][Next]_vars

\* asyncio02.py alone: the shopping program is left as constructed, with the
\* smallest arguments.
IterInit ==
    /\ maxsize = 1
    /\ total_customers = 0
    /\ num_cashiers = 1
    /\ all_products = Catalog
    /\ InitState

\* The event loop runs main whenever it is ready and the timer expires.
IterSpec == IterInit /\ [][IterNext]_vars /\ WF_vars(IterRun)

(***************************************************************************)
(* Properties                                                              *)
(***************************************************************************)
\* join() has returned to main.
JoinReturned == main_pc \in {"cancel", "done"}

\* The ids in the order get returned them, whichever cashier got them.
GetIds == [k \in DOMAIN get_log |-> get_log[k][2]]

\* Cashier i is between a get and the task_done of the item it got.
InProgress(i) == pc[i] = "sleep"

\* main has called cancel() on cashier i.
CancelRequested(i) ==
    \/ main_pc = "cancel" /\ i < cancel_i
    \/ main_pc = "done"

AllCancelRequested == \A i \in Cashiers : CancelRequested(i)

\* Number of entries of a log made by cashier i.
CountBy(log, i) == Cardinality({k \in DOMAIN log : log[k][1] = i})

RECURSIVE SumTimes(_, _)
SumTimes(times, n) ==
    IF n = 0 THEN 0 ELSE times[n - 1] + SumTimes(times, n - 1)

RECURSIVE ItemTime(_)
ItemTime(products) ==
    IF products = <<>> THEN 0
    ELSE Round2(Head(products).checkout_time) + ItemTime(Tail(products))

\* C1: join() returns to main only when unfinished_tasks is 0 and the number
\* of task_done calls equals the number of puts, which is total_customers,
\* with nothing buffered or in progress; and once every customer is marked
\* done, join() does return.
JoinReturnsSafely ==
    JoinReturned =>
        /\ unfinished_tasks = 0
        /\ Len(done_log) = Len(put_log)
        /\ Len(put_log) = total_customers
        /\ queue = <<>>
        /\ \A i \in Cashiers : ~InProgress(i)

AllMarkedDone == gen_pc = "done" /\ Len(done_log) = total_customers

C1_JoinCorrect == []JoinReturnsSafely /\ (AllMarkedDone ~> JoinReturned)

\* join() returned after main had to wait for it, all customers done.
C1_Witness ==
    /\ main_pc = "cancel"
    /\ cancel_i = 0
    /\ finished_waiters = <<>>
    /\ fut[MainTask] = "none"
    /\ total_customers = MaxCustomers
    /\ Len(done_log) = MaxCustomers
    /\ cashier_count[0] < MaxCustomers

\* C2: when main reads cashier_times for its report, the slots sum to
\* total_customers times the rounded checkout times of one customer's
\* products (100 + 40 + 40 + 20 hundredths for the catalog).
C2_Conservation ==
    main_pc = "done" =>
        /\ ItemTime(all_products) = 100 + 40 + 40 + 20
        /\ SumTimes(report.cashier_times, num_cashiers)
              = total_customers * ItemTime(all_products)

\* The report was printed after two cashiers shared the customers.
C2_Witness ==
    /\ main_pc = "done"
    /\ total_customers = MaxCustomers
    /\ num_cashiers = 2
    /\ report.cashier_times[0] > 0
    /\ report.cashier_times[1] > 0

\* C3: every customer id is returned by get at most once, over all cashiers,
\* only ids 0 .. total_customers-1 are returned, and when join has returned
\* every one of them has been returned.
C3_NoDoubleProcessing ==
    /\ \A a, b \in DOMAIN get_log : a # b => get_log[a][2] # get_log[b][2]
    /\ \A k \in DOMAIN get_log :
          /\ get_log[k][2] \in 0 .. (total_customers - 1)
          /\ get_log[k][1] \in Cashiers
    /\ JoinReturned =>
          \A id \in 0 .. (total_customers - 1) :
              \E k \in DOMAIN get_log : get_log[k][2] = id

\* All customers were got, by two different cashiers.
C3_Witness ==
    /\ Len(get_log) = MaxCustomers
    /\ \E a, b \in DOMAIN get_log : get_log[a][1] # get_log[b][1]
    /\ JoinReturned

\* C4: the ids returned by get, over all cashiers, are the ids put, in the
\* order they were put, and that order is 0, 1, 2, ...
C4_Fifo ==
    /\ Len(get_log) <= Len(put_log)
    /\ GetIds = SubSeq(put_log, 1, Len(get_log))
    /\ put_log = RangeSeq(0, Len(put_log) - 1)

\* All customers were got, the last two by different cashiers.
C4_Witness ==
    /\ Len(get_log) = MaxCustomers
    /\ get_log[MaxCustomers][1] # get_log[MaxCustomers - 1][1]
    /\ maxsize = 2
    /\ gen_pc = "done"

\* C5: the number of buffered customers is between 0 and maxsize.
C5_BoundedOccupancy == Len(queue) >= 0 /\ Len(queue) <= maxsize

\* The queue is full although more customers than its capacity were produced.
C5_Witness ==
    /\ Len(queue) = maxsize
    /\ customer_count > maxsize
    /\ total_customers > customer_count

\* C6: a put completes only in a step that starts with room in the queue,
\* and while the producer waits in put with the queue full no step completes
\* the put or advances its count; a get completes only in a step that starts
\* with a customer buffered, and while a cashier waits in get with the queue
\* empty no step completes that get.
C6_Backpressure ==
    [][ /\ put_log' # put_log => Len(queue) < maxsize
        /\ get_log' # get_log => queue # <<>>
        /\ (gen_pc = "put_wait" /\ Len(queue) >= maxsize) =>
              /\ gen_pc' = "put_wait"
              /\ customer_count' = customer_count
              /\ put_log' = put_log
              /\ Len(queue') <= Len(queue)
        /\ \A i \in Cashiers :
              (pc[i] = "get_wait" /\ queue = <<>>) =>
                  /\ pc'[i] \in {"get_wait", "cancelled"}
                  /\ cashier_count'[i] = cashier_count[i]
                  /\ customer'[i] = customer[i]
                  /\ CountBy(get_log', i) = CountBy(get_log, i) ]_vars

\* The producer waited in put and a get has just made room for it.
C6_Witness ==
    /\ gen_pc = "put_wait"
    /\ fut[ProducerTask] = "result"
    /\ Len(queue) = maxsize - 1

\* C7: once main has called cancel() on every cashier, every cashier's task
\* ends cancelled; and a cashier on which cancel() was called gets no
\* customer and marks none done.
C7_Cancellation ==
    /\ [][ \A i \in Cashiers :
              CancelRequested(i) =>
                  /\ cashier_count'[i] = cashier_count[i]
                  /\ CountBy(get_log', i) = CountBy(get_log, i)
                  /\ CountBy(done_log', i) = CountBy(done_log, i) ]_vars
    /\ (AllCancelRequested ~> (\A i \in Cashiers : pc[i] = "cancelled"))

\* Every cashier was cancelled while waiting in get, after real work.
C7_Witness ==
    /\ \A i \in Cashiers : pc[i] = "cancelled" /\ cashier_count[i] > 0
    /\ num_cashiers = MaxCashiers
    /\ main_pc = "done"

\* C8: under fair scheduling, for every configuration, the producer
\* finishes having put total_customers customers, join returns and main
\* reports that many customers; before the report some task can always run.
C8_Termination ==
    /\ <>( /\ main_pc = "done"
           /\ report.customers = total_customers
           /\ gen_pc = "done"
           /\ Len(put_log) = total_customers
           /\ unfinished_tasks = 0 )
    /\ [](main_pc # "done" => (ready # <<>> \/ timers # {}))

\* The run ended for the largest configuration, whose producer had to wait.
C8_Witness ==
    /\ main_pc = "done"
    /\ report.customers = MaxCustomers
    /\ maxsize = 1
    /\ num_cashiers = 1
    /\ ready = <<>>

\* C9: cancel() has been called on a cashier only if the producer is done
\* and join has returned; then nothing is unfinished.
CancelIssued ==
    \E i \in Cashiers :
        \/ must_cancel[i]
        \/ fut[i] = "cancelled"
        \/ pc[i] = "cancelled"
        \/ CancelRequested(i)

C9_ShutdownOrdering ==
    CancelIssued =>
        /\ gen_pc = "done"
        /\ result = total_customers
        /\ JoinReturned
        /\ unfinished_tasks = 0

\* The first cashier has been cancelled, the second not yet.
C9_Witness ==
    /\ main_pc = "cancel"
    /\ cancel_i = 1
    /\ num_cashiers = 2
    /\ fut[0] = "cancelled"
    /\ fut[1] = "pending"
    /\ total_customers > 0

\* C10: unfinished_tasks is never negative and task_done never raises: each
\* task_done is for a customer the same cashier got and had not marked done.
C10_NoUnderflow ==
    /\ unfinished_tasks >= 0
    /\ \A i \in Cashiers : pc[i] # "error"
    /\ \A k \in DOMAIN done_log :
          /\ \E g \in DOMAIN get_log : get_log[g] = done_log[k]
          /\ \A j \in DOMAIN done_log : j # k => done_log[j] # done_log[k]
    /\ unfinished_tasks = Len(put_log) - Len(done_log)

\* Every customer was marked done and every cashier has ended cancelled.
C10_Witness ==
    /\ Len(done_log) = MaxCustomers
    /\ unfinished_tasks = 0
    /\ \A i \in Cashiers : pc[i] = "cancelled"
    /\ maxsize = MaxQueueSize

\* C11: unfinished_tasks is at least the number of buffered customers.
C11_UnfinishedCoversBuffered == unfinished_tasks >= Len(queue)

\* A customer is buffered while another, got earlier, is not yet marked done.
C11_Witness ==
    /\ Len(queue) > 0
    /\ unfinished_tasks > Len(queue)
    /\ \E i \in Cashiers : InProgress(i)

\* main is about to read cashier_times for its report: the for loop over the
\* cashiers has ended and the prints come next.
AboutToReport == main_pc = "cancel" /\ cancel_i = num_cashiers

\* C12 (as claimed): when main reads cashier_times for the report, every
\* cashier task has already ended cancelled.
C12_ReadAfterCashiersEnded ==
    AboutToReport => \A i \in Cashiers : pc[i] = "cancelled"

\* C12 (amended): when main reads cashier_times for the report, cancel() has
\* been called on every cashier and every cashier is suspended in get with
\* no customer in progress; the cashiers end cancelled only after main has
\* returned, and no slot changes after the read.
C12_ReadWhenCashiersIdle ==
    /\ AboutToReport =>
          \A i \in Cashiers :
              /\ pc[i] = "get_wait"
              /\ CancelPending(i)
              /\ CountBy(get_log, i) = CountBy(done_log, i)
    /\ main_pc = "done" =>
          /\ report.cashier_times = cashier_times
          /\ \A i \in Cashiers : pc[i] \in {"get_wait", "cancelled"}

\* The report is printed and a cashier that worked has not yet ended.
C12_Witness ==
    /\ main_pc = "done"
    /\ pc[0] = "get_wait"
    /\ fut[0] = "cancelled"
    /\ report.cashier_times[0] > 0

\* C13: a slot of cashier_times changes only in a step of the cashier with
\* that index (which is then the running task, back from a sleep); steps of
\* other cashiers, of the producer, of main and of the timers leave it
\* unchanged, and the list keeps one slot per cashier.
C13_SlotOwnership ==
    [][ /\ DOMAIN cashier_times' = Cashiers
        /\ \A j \in Cashiers :
              cashier_times'[j] # cashier_times[j] =>
                  /\ Running(j)
                  /\ pc[j] = "sleep"
                  /\ cashier_times'[j] > cashier_times[j] ]_vars

\* Both cashiers have added to their slots while main waits in join.
C13_Witness ==
    /\ num_cashiers = 2
    /\ cashier_times[0] > 0
    /\ cashier_times[1] > 0
    /\ cashier_times[0] # cashier_times[1]
    /\ main_pc = "join_wait"

\* C14: the producer puts the customers 0, 1, 2, ... in ascending order, never
\* more than total_customers of them, each with the four-product catalog
\* (beef 1.0, banana 0.4, sausage 0.4, diapers 0.2, in that order);
\* customer_count is the number of puts made so far, and the value returned
\* is total_customers, reached exactly when total_customers puts were made.
C14_GeneratorResult ==
    /\ put_log = RangeSeq(0, Len(put_log) - 1)
    /\ Len(put_log) <= total_customers
    /\ gen_pc \in {"put_wait", "sleep", "done"} => customer_count = Len(put_log)
    /\ \A k \in 1..Len(queue) :
          /\ queue[k].customer_id \in 0..(total_customers - 1)
          /\ queue[k].products = Catalog
    /\ \A i \in Cashiers :
          customer[i] # NoCustomer => customer[i].products = Catalog
    /\ Len(Catalog) = 4
    /\ [k \in 1..4 |-> Catalog[k].product_name]
          = <<"beef", "banana", "sausage", "diapers">>
    /\ [k \in 1..4 |-> Round2(Catalog[k].checkout_time)] = <<100, 40, 40, 20>>
    /\ gen_pc = "done" <=> result # NoResult
    /\ gen_pc = "done" =>
          /\ result = total_customers
          /\ result = Len(put_log)

\* The producer has returned the largest count while customers still wait in
\* the queue.
C14_Witness ==
    /\ gen_pc = "done"
    /\ result = MaxCustomers
    /\ queue # <<>>
    /\ queue[Len(queue)].customer_id = MaxCustomers - 1

\* Queue of 2, 3 customers of one product of duration 0 each, 1 cashier.
InScenario ==
    /\ all_products = ScenarioProducts
    /\ maxsize = 2
    /\ total_customers = 3
    /\ num_cashiers = 1

IsPrefix(s, t) == Len(s) <= Len(t) /\ s = SubSeq(t, 1, Len(s))

\* C15: in the single-cashier scenario the cashier gets and marks done the
\* customers in the order 0, 1, 2, one at a time, and join has returned to
\* main only when the third task_done has been made.
C15_SingleWorkerScenario ==
    InScenario =>
        /\ IsPrefix(get_log, << <<0, 0>>, <<0, 1>>, <<0, 2>> >>)
        /\ IsPrefix(done_log, get_log)
        /\ Len(get_log) <= Len(done_log) + 1
        /\ cashier_times[0] = 0
        /\ JoinReturned => Len(done_log) = 3
        /\ main_pc = "join_wait" /\ fut[MainTask] = "result" => Len(done_log) = 3

\* The scenario ran to the end: three customers done in order, join returned.
C15_Witness ==
    /\ InScenario
    /\ JoinReturned
    /\ done_log = << <<0, 0>>, <<0, 1>>, <<0, 2>> >>
    /\ report.customers = 3

\* The entries of a log made by cashier i, in order.
SelectBy(log, i) == SelectSeq(log, LAMBDA e : e[1] = i)

\* The id of the customer cashier i got last.
LastGet(i) == LET own == SelectBy(get_log, i) IN own[Len(own)][2]

\* C16: for each customer a cashier gets, it sleeps for the products in
\* catalog order (the sleep for product k+1 starts only in the step that
\* ends the sleep for product k), calls task_done once, in the step that ends
\* the sleep for the last product, and gets the next customer only with that
\* task_done made.
C16_PerItemProtocol ==
    /\ [](\A i \in Cashiers :
            /\ IsPrefix(SelectBy(done_log, i), SelectBy(get_log, i))
            /\ CountBy(get_log, i) <= CountBy(done_log, i) + 1
            /\ pc[i] = "sleep" <=> CountBy(get_log, i) = CountBy(done_log, i) + 1
            /\ pc[i] = "sleep" =>
                  /\ customer[i].customer_id = LastGet(i)
                  /\ product_i[i] \in 1 .. Len(customer[i].products))
    /\ [][\A i \in Cashiers :
            /\ CountBy(get_log', i) # CountBy(get_log, i) =>
                  /\ Running(i)
                  /\ CountBy(get_log', i) = CountBy(get_log, i) + 1
                  /\ CountBy(done_log', i) = CountBy(get_log, i)
                  /\ pc'[i] = "sleep"
                  /\ product_i'[i] = 1
            /\ CountBy(done_log', i) # CountBy(done_log, i) =>
                  /\ Running(i)
                  /\ pc[i] = "sleep"
                  /\ product_i[i] = Len(customer[i].products)
                  /\ done_log' = Append(done_log, <<i, customer[i].customer_id>>)
            /\ (pc'[i] = "sleep" /\ CountBy(get_log', i) = CountBy(get_log, i)) =>
                  /\ customer'[i] = customer[i]
                  /\ \/ product_i'[i] = product_i[i] /\ pc[i] = "sleep"
                     \/ /\ product_i'[i] = product_i[i] + 1
                        /\ pc[i] = "sleep"
                        /\ Running(i)
                        /\ CountBy(done_log', i) = CountBy(done_log, i)
       ]_vars

\* Cashier 0 has finished one customer and sleeps for the second product of
\* its next one.
C16_Witness ==
    /\ CountBy(done_log, 0) >= 1
    /\ pc[0] = "sleep"
    /\ product_i[0] = 2

\* The sleeps cashier i has completed: every product of the customers it
\* marked done, and the products before the current one of the customer it
\* holds.
CompletedTime(i) ==
    CountBy(done_log, i) * ItemTime(all_products)
      + (IF CountBy(get_log, i) > CountBy(done_log, i)
         THEN ItemTime(SubSeq(customer[i].products, 1, product_i[i] - 1))
         ELSE 0)

\* C17: cashier_times[i] is always the sum of the (rounded) times of the
\* products whose sleep cashier i has completed, the product it sleeps for
\* not included; the step in which a cashier is cancelled adds nothing to any
\* slot and makes no task_done.
C17_TimeAfterWait ==
    /\ [](\A i \in Cashiers : cashier_times[i] = CompletedTime(i))
    /\ [][\A i \in Cashiers :
            (pc'[i] = "cancelled" /\ pc[i] # "cancelled") =>
                /\ cashier_times' = cashier_times
                /\ done_log' = done_log
                /\ unfinished_tasks' = unfinished_tasks ]_vars

\* Cashier 1 sleeps for the third product of its second customer.
C17_Witness ==
    /\ num_cashiers = 2
    /\ pc[1] = "sleep"
    /\ product_i[1] = 3
    /\ CountBy(done_log, 1) = 1
    /\ cashier_times[1] = ItemTime(Catalog) + 140

\* The cashiers that hold a customer they got and have not marked done.
Holders == {i \in Cashiers : CountBy(get_log, i) > CountBy(done_log, i)}

\* C18: a cashier holds at most one customer at a time, unfinished_tasks is
\* the number of buffered customers plus the number of cashiers holding one,
\* and so it never exceeds maxsize + num_cashiers.
C18_ExactAccounting ==
    /\ \A i \in Cashiers :
          /\ CountBy(get_log, i) - CountBy(done_log, i) \in {0, 1}
          /\ i \in Holders <=> InProgress(i)
    /\ unfinished_tasks = Len(queue) + Cardinality(Holders)
    /\ unfinished_tasks <= maxsize + num_cashiers

\* The largest count: a full queue and every one of two cashiers busy.
C18_Witness ==
    /\ num_cashiers = 2
    /\ Cardinality(Holders) = 2
    /\ Len(queue) = maxsize
    /\ unfinished_tasks = maxsize + num_cashiers

\* C19: while main runs its cancel loop the queue is empty, unfinished_tasks
\* is 0, the producer has returned and every cashier is suspended in get()
\* holding no customer; a cancellation always reaches a cashier in get(), so
\* it never interrupts a sleep for a product and never drops a customer.
C19_NoWorkAbandoned ==
    /\ [](main_pc = "cancel" =>
            /\ queue = <<>>
            /\ unfinished_tasks = 0
            /\ gen_pc = "done"
            /\ Len(done_log) = Len(put_log)
            /\ \A i \in Cashiers :
                  /\ pc[i] = "get_wait"
                  /\ fut[i] = (IF i < cancel_i THEN "cancelled" ELSE "pending")
                  /\ ~must_cancel[i]
                  /\ i \notin Holders)
    /\ [](\A i \in Cashiers :
            (CancelPending(i) \/ pc[i] = "cancelled") =>
                /\ pc[i] \in {"get_wait", "cancelled"}
                /\ i \notin Holders)
    /\ [][\A i \in Cashiers :
            (pc'[i] = "cancelled" /\ pc[i] # "cancelled") =>
                /\ pc[i] = "get_wait"
                /\ queue = <<>>
                /\ Len(done_log') = Len(put_log') ]_vars

\* main is about to issue the first cancel() with two cashiers that have
\* both served customers.
C19_Witness ==
    /\ main_pc = "cancel"
    /\ cancel_i = 0
    /\ num_cashiers = 2
    /\ cashier_count[0] > 0
    /\ cashier_count[1] > 0

\* C20: main prints exactly 1, 2, ..., 10 in ascending order, each once, and
\* then the iteration stops; counter never exceeds 10; a call of __anext__
\* with counter = 10 raises StopAsyncIteration and leaves counter (and what
\* was printed) as it is.
C20_AsyncIterator ==
    /\ [](/\ counter \in 0 .. 10
          /\ printed = RangeSeq(1, Len(printed))
          /\ Len(printed) <= counter
          /\ it_pc = "raise" => counter = 10
          /\ stops >= 1 => counter = 10 /\ printed = RangeSeq(1, 10))
    /\ [][/\ (it_pc = "check" /\ counter = 10) =>
                it_pc' = "raise" /\ counter' = counter /\ printed' = printed
          /\ it_pc = "raise" =>
                /\ stops' = stops + 1
                /\ counter' = counter
                /\ printed' = printed
                /\ it_pc' = "done"
          /\ counter' # counter =>
                counter' = counter + 1 /\ it_pc \in {"new", "increment"}
          /\ printed' # printed => printed' = Append(printed, counter)
       ]_vars
    /\ <>(stops >= 1 /\ printed = RangeSeq(1, 10))

\* The iterator is exhausted and a call after the loop has raised again.
C20_Witness ==
    /\ stops >= 2
    /\ it_pc = "done"
    /\ counter = 10
    /\ printed = RangeSeq(1, 10)

====
